---------------------------- MODULE Spec2Model ----------------------------
(***************************************************************************)
(* Token escrow program (programs/token-escrow/src/lib.rs).                *)
(*                                                                         *)
(* One escrow record and one vault live at addresses derived from the      *)
(* (buyer, seller) pair.  Three instructions, create_escrow,               *)
(* complete_escrow and cancel_escrow, each run as one atomic transaction:  *)
(* the account constraints of the #[derive(Accounts)] struct are checked   *)
(* first, then the handler runs, and any error discards every write.       *)
(***************************************************************************)
EXTENDS Integers, FiniteSets, Sequences, TLC

(***************************************************************************)
(* Bounds of the model.                                                    *)
(***************************************************************************)
\* tokens the account b1 holds initially
InitFunds == 2
\* transactions that may be submitted to the pool in one behaviour
MaxTx == 2

\* the largest amount a create_escrow call is tried with: one more than any
\* account can hold at the start, so that the deposit can fail
MaxAmount == InitFunds + 1

(***************************************************************************)
(* Identities, token accounts and instruction inputs.                      *)
(***************************************************************************)
\* signers: a buyer, a seller and a third party; any of them may play any role
Users == {"B", "S", "T"}

\* token accounts of the one mint, each with the identity in its owner field
TokenAccounts == {"b1", "b2", "s1", "t1"}

Owner(a) ==
    CASE a \in {"b1", "b2"} -> "B"
      [] a = "s1" -> "S"
      [] a = "t1" -> "T"

\* item_name arguments, kept with their length in bytes
ItemNames == { [text |-> "fifty bytes", bytes |-> 50],
               [text |-> "fifty-one bytes", bytes |-> 51] }

\* seeds = [b"escrow", buyer, seller]: the address of the record of a pair.
\* The vault's address, seeds = [b"vault", escrow], is named by the same pair.
EscrowPda(buyer, seller) == <<buyer, seller>>

\* the (buyer, seller) pairs create_escrow is called for: a pair and its reverse
Pairs == { <<"B", "S">>, <<"S", "B">> }

\* the escrow addresses the instructions are called with
Keys == { EscrowPda(p[1], p[2]) : p \in Pairs }

\* the canonical bump of an escrow address: a fixed byte per address
UserIndex(u) == IF u = "B" THEN 0 ELSE IF u = "S" THEN 1 ELSE 2

FindBump(key) == 255 - ((UserIndex(key[1]) + 3 * UserIndex(key[2])) % 4)

\* Escrow::SPACE = 8 + 32 + 32 + 8 + (4 + 50) + 1 + 1
SPACE == 8 + 32 + 32 + 8 + (4 + 50) + 1 + 1

\* bytes the record takes when written back: discriminator, the fixed fields
\* and the length-prefixed item_name
SerializedSize(item_name) == 8 + 32 + 32 + 8 + (4 + item_name.bytes) + 1 + 1

VARIABLES
    escrow,     \* Escrow accounts: address -> record, for the addresses initialised
    vault,      \* vault token accounts: address -> amount, for those initialised
    balance,    \* amount of each user token account
    frozen,     \* user token accounts the mint's freeze authority has frozen
    pending,    \* transactions submitted and not yet processed
    outcome,    \* per record, the results of the processed settlement transactions
    last        \* the instruction last processed: its signer, the user token
                \* account it named and its result

vars == <<escrow, vault, balance, frozen, pending, outcome, last>>

\* what the user token accounts hold before the program is first called
InitialBalance ==
    [a \in TokenAccounts |-> IF a = "b1" THEN InitFunds ELSE IF a = "s1" THEN 1 ELSE 0]

Init ==
    /\ escrow = << >>
    /\ vault = << >>
    /\ balance = InitialBalance
    /\ frozen = {}
    /\ pending = {}
    /\ outcome = [k \in Keys |-> << >>]
    /\ last = [op |-> "none", signer |-> "-", account |-> "-", result |-> "none"]

(***************************************************************************)
(* token::transfer as the handlers use it.                                 *)
(***************************************************************************)
\* the token program's checks on a transfer of amount out of an account
\* holding srcAmount; srcFrozen / dstFrozen: the state of the two accounts
TransferResult(srcAmount, amount, srcFrozen, dstFrozen) ==
    IF srcFrozen \/ dstFrozen THEN "AccountFrozen"
    ELSE IF srcAmount < amount THEN "InsufficientFunds"
    ELSE "Ok"

\* NewEscrow with the two parties written to each other's field
NewEscrow_PartiesSwapped(buyer, seller, amount, item_name) ==
    [ buyer |-> seller,
      seller |-> buyer,
      amount |-> amount,
      item_name |-> item_name,
      is_completed |-> FALSE,
      bump |-> FindBump(EscrowPda(buyer, seller)) ]

\* the writes of lines 13-18 of create_escrow
NewEscrow(buyer, seller, amount, item_name) ==
    [ buyer |-> buyer,
      seller |-> seller,
      amount |-> amount,
      item_name |-> item_name,
      is_completed |-> FALSE,
      bump |-> FindBump(EscrowPda(buyer, seller)) ]

IsOpen(key) == key \in DOMAIN escrow /\ ~escrow[key].is_completed

IsSettled(key) == key \in DOMAIN escrow /\ escrow[key].is_completed

(***************************************************************************)
(* create_escrow                                                           *)
(***************************************************************************)
\* InitResult with the init constraints left out (as with init_if_needed)
InitResult_Skipped(key) == "Ok"

\* #[account(init, ...)] on escrow and on escrow_vault: the address must not
\* hold an account yet
InitResult(key) ==
    IF key \in DOMAIN escrow THEN "AlreadyExists"
    ELSE IF key \in DOMAIN vault THEN "AlreadyExists"
    ELSE "Ok"

\* the constraints of CreateEscrow, in field order: both init accounts, then
\* token::authority = buyer on buyer_token_account
CreateAccountsResult(buyer, seller, src) ==
    IF InitResult(EscrowPda(buyer, seller)) # "Ok"
        THEN InitResult(EscrowPda(buyer, seller))
    ELSE IF Owner(src) # buyer THEN "ConstraintTokenOwner"
    ELSE "Ok"

\* ExitResult for an account allocated with room to spare
ExitResult_Skipped(item_name) == "Ok"

\* the record is written back when the instruction exits and must fit the
\* space the account was allocated with
ExitResult(item_name) ==
    IF SerializedSize(item_name) > SPACE THEN "AccountDidNotSerialize" ELSE "Ok"

\* CreateHandlerResult with the result of the deposit dropped (no `?`)
CreateHandlerResult_Unchecked(amount, src) == "Ok"

\* the handler: the deposit from buyer_token_account into the new, empty vault
CreateHandlerResult(amount, src) ==
    TransferResult(balance[src], amount, src \in frozen, FALSE)

CreateResult(buyer, seller, amount, item_name, src) ==
    IF CreateAccountsResult(buyer, seller, src) # "Ok"
        THEN CreateAccountsResult(buyer, seller, src)
    ELSE IF CreateHandlerResult(amount, src) # "Ok"
        THEN CreateHandlerResult(amount, src)
    ELSE ExitResult(item_name)

\* what a create_escrow transaction does to the accounts
ApplyCreate(buyer, seller, amount, item_name, src) ==
    LET key == EscrowPda(buyer, seller)
        r == CreateResult(buyer, seller, amount, item_name, src)
    IN  /\ last' = [op |-> "create", signer |-> buyer, account |-> src, result |-> r]
        /\ IF r = "Ok"
             THEN /\ escrow' = [k \in DOMAIN escrow \cup {key} |->
                                IF k = key
                                    THEN NewEscrow(buyer, seller, amount, item_name)
                                    ELSE escrow[k]]
                  /\ vault' = [k \in DOMAIN vault \cup {key} |->
                                IF k = key
                                    THEN (IF k \in DOMAIN vault THEN vault[k] ELSE 0) + amount
                                    ELSE vault[k]]
                  /\ balance' = [balance EXCEPT ![src] = @ - amount]
             ELSE UNCHANGED <<escrow, vault, balance>>

CreateEscrow(buyer, seller, amount, item_name, src) ==
    /\ ApplyCreate(buyer, seller, amount, item_name, src)
    /\ UNCHANGED <<frozen, pending, outcome>>

(***************************************************************************)
(* complete_escrow and cancel_escrow                                       *)
(***************************************************************************)
\* LoadResult reporting a missing record as a settled one
LoadResult_MissingAsSettled(key, v) ==
    IF key \notin DOMAIN escrow THEN "AlreadyCompleted"
    ELSE IF v \notin DOMAIN vault THEN "NotFound"
    ELSE "Ok"

\* escrow: Account<Escrow> and escrow_vault: Account<TokenAccount> must hold
\* initialised accounts (the spec's NotFound)
LoadResult(key, v) ==
    IF key \notin DOMAIN escrow THEN "NotFound"
    ELSE IF v \notin DOMAIN vault THEN "NotFound"
    ELSE "Ok"

\* SeedsResult without seeds = [b"vault", escrow.key()] on the vault
SeedsResult_AnyVault(key, v) ==
    IF EscrowPda(escrow[key].buyer, escrow[key].seller) # key THEN "ConstraintSeeds"
    ELSE IF escrow[key].bump # FindBump(key) THEN "ConstraintSeeds"
    ELSE "Ok"

\* seeds = [b"escrow", escrow.buyer, escrow.seller], bump = escrow.bump on the
\* record, and seeds = [b"vault", escrow.key()] on the vault
SeedsResult(key, v) ==
    IF EscrowPda(escrow[key].buyer, escrow[key].seller) # key THEN "ConstraintSeeds"
    ELSE IF escrow[key].bump # FindBump(key) THEN "ConstraintSeeds"
    ELSE IF v # key THEN "ConstraintSeeds"
    ELSE "Ok"

\* token::authority = seller on seller_token_account, where seller is the
\* account that signed: CompleteEscrow never compares it with escrow.seller
CompleteAccountsResult(key, v, signer, dest) ==
    IF LoadResult(key, v) # "Ok" THEN LoadResult(key, v)
    ELSE IF SeedsResult(key, v) # "Ok" THEN SeedsResult(key, v)
    ELSE IF Owner(dest) # signer THEN "ConstraintTokenOwner"
    ELSE "Ok"

\* CancelAccountsResult without token::authority = buyer on buyer_token_account
CancelAccountsResult_AnyDestination(key, v, signer, dest) ==
    IF LoadResult(key, v) # "Ok" THEN LoadResult(key, v)
    ELSE SeedsResult(key, v)

\* token::authority = buyer on buyer_token_account, where buyer is the signer
CancelAccountsResult(key, v, signer, dest) ==
    IF LoadResult(key, v) # "Ok" THEN LoadResult(key, v)
    ELSE IF SeedsResult(key, v) # "Ok" THEN SeedsResult(key, v)
    ELSE IF Owner(dest) # signer THEN "ConstraintTokenOwner"
    ELSE "Ok"

\* RequireNotCompleted with the require! left out
RequireNotCompleted_Skipped(key) == "Ok"

\* require!(!ctx.accounts.escrow.is_completed, EscrowError::AlreadyCompleted)
RequireNotCompleted(key) ==
    IF escrow[key].is_completed THEN "AlreadyCompleted" ELSE "Ok"

\* RequireBuyer with the require! left out
RequireBuyer_Skipped(key, signer) == "Ok"

\* RequireBuyer comparing the signer with escrow.seller
RequireBuyer_AgainstSeller(key, signer) ==
    IF signer = escrow[key].seller THEN "Ok" ELSE "UnauthorizedCancel"

\* require!(ctx.accounts.buyer.key() == buyer_key, EscrowError::UnauthorizedCancel)
RequireBuyer(key, signer) ==
    IF signer = escrow[key].buyer THEN "Ok" ELSE "UnauthorizedCancel"

\* ReleaseResult with the result of the transfer dropped (no `?`)
ReleaseResult_Unchecked(key, v, dest) == "Ok"

\* token::transfer(cpi_ctx, amount) out of the vault, signed with the escrow's seeds
ReleaseResult(key, v, dest) ==
    TransferResult(vault[v], escrow[key].amount, FALSE, dest \in frozen)

\* CompleteHandlerResult going straight to the transfer
CompleteHandlerResult_NoStateCheck(key, v, dest) == ReleaseResult(key, v, dest)

CompleteHandlerResult(key, v, dest) ==
    IF RequireNotCompleted(key) # "Ok" THEN RequireNotCompleted(key)
    ELSE ReleaseResult(key, v, dest)

\* CancelHandlerResult with the two require! checks in the other order
CancelHandlerResult_SignerFirst(key, v, signer, dest) ==
    IF RequireBuyer(key, signer) # "Ok" THEN RequireBuyer(key, signer)
    ELSE IF RequireNotCompleted(key) # "Ok" THEN RequireNotCompleted(key)
    ELSE ReleaseResult(key, v, dest)

CancelHandlerResult(key, v, signer, dest) ==
    IF RequireNotCompleted(key) # "Ok" THEN RequireNotCompleted(key)
    ELSE IF RequireBuyer(key, signer) # "Ok" THEN RequireBuyer(key, signer)
    ELSE ReleaseResult(key, v, dest)

CompleteResult(key, v, signer, dest) ==
    IF CompleteAccountsResult(key, v, signer, dest) # "Ok"
        THEN CompleteAccountsResult(key, v, signer, dest)
    ELSE CompleteHandlerResult(key, v, dest)

CancelResult(key, v, signer, dest) ==
    IF CancelAccountsResult(key, v, signer, dest) # "Ok"
        THEN CancelAccountsResult(key, v, signer, dest)
    ELSE CancelHandlerResult(key, v, signer, dest)

\* Release without the assignment is_completed = true
Release_FlagNotSet(key, v, dest) ==
    /\ vault' = [vault EXCEPT ![v] = @ - escrow[key].amount]
    /\ balance' = [balance EXCEPT ![dest] = @ + escrow[key].amount]
    /\ escrow' = escrow

\* Release paying out the vault's whole balance less one token of fee
Release_KeepsOne(key, v, dest) ==
    /\ vault' = [vault EXCEPT ![v] = @ - escrow[key].amount]
    /\ balance' = [balance EXCEPT ![dest] =
                        @ + (IF escrow[key].amount > 0 THEN escrow[key].amount - 1 ELSE 0)]
    /\ escrow' = [escrow EXCEPT ![key].is_completed = TRUE]

\* Release that also clears escrow.amount once the vault is paid out
Release_ClearsAmount(key, v, dest) ==
    /\ vault' = [vault EXCEPT ![v] = @ - escrow[key].amount]
    /\ balance' = [balance EXCEPT ![dest] = @ + escrow[key].amount]
    /\ escrow' = [escrow EXCEPT ![key].is_completed = TRUE, ![key].amount = 0]

\* the writes of a settlement that went through: the transfer of
\* escrow.amount from the vault to dest, then is_completed = true
Release(key, v, dest) ==
    /\ vault' = [vault EXCEPT ![v] = @ - escrow[key].amount]
    /\ balance' = [balance EXCEPT ![dest] = @ + escrow[key].amount]
    /\ escrow' = [escrow EXCEPT ![key].is_completed = TRUE]

ApplyComplete(key, v, signer, dest) ==
    LET r == CompleteResult(key, v, signer, dest)
    IN  /\ last' = [op |-> "complete", signer |-> signer, account |-> dest, result |-> r]
        /\ IF r = "Ok" THEN Release(key, v, dest)
                        ELSE UNCHANGED <<escrow, vault, balance>>

ApplyCancel(key, v, signer, dest) ==
    LET r == CancelResult(key, v, signer, dest)
    IN  /\ last' = [op |-> "cancel", signer |-> signer, account |-> dest, result |-> r]
        /\ IF r = "Ok" THEN Release(key, v, dest)
                        ELSE UNCHANGED <<escrow, vault, balance>>

CompleteEscrow(key, v, signer, dest) ==
    /\ ApplyComplete(key, v, signer, dest)
    /\ UNCHANGED <<frozen, pending, outcome>>

CancelEscrow(key, v, signer, dest) ==
    /\ ApplyCancel(key, v, signer, dest)
    /\ UNCHANGED <<frozen, pending, outcome>>

(***************************************************************************)
(* The program on its own: the three instructions, processed one at a time *)
(* with any signer and any accounts.                                       *)
(***************************************************************************)
Next ==
    \/ \E p \in Pairs, amount \in 0..MaxAmount,
          item_name \in ItemNames, src \in TokenAccounts :
            CreateEscrow(p[1], p[2], amount, item_name, src)
    \/ \E key \in Keys, v \in Keys, signer \in Users, dest \in TokenAccounts :
            CompleteEscrow(key, v, signer, dest)
    \/ \E key \in Keys, v \in Keys, signer \in Users, dest \in TokenAccounts :
            CancelEscrow(key, v, signer, dest)

Spec == Init /\ [][Next]_vars

(***************************************************************************)
(* The program with a buyer who does not give up: while the record of a    *)
(* pair is Open, its buyer keeps submitting cancel_escrow for it, with the *)
(* record's vault and a token account of their own, until a transaction    *)
(* of theirs is processed.                                                 *)
(***************************************************************************)
BuyerCancel(key) ==
    /\ IsOpen(key)
    /\ \E dest \in TokenAccounts :
          /\ Owner(dest) = escrow[key].buyer
          /\ CancelEscrow(key, key, escrow[key].buyer, dest)

SpecLive == Init /\ [][Next]_vars /\ \A key \in Keys : WF_vars(BuyerCancel(key))

(***************************************************************************)
(* Escrows that are only ever created and cancelled: create_escrow and     *)
(* cancel_escrow called by anyone with any accounts, and no                *)
(* complete_escrow.                                                        *)
(***************************************************************************)
NextRefund ==
    \/ \E p \in Pairs, amount \in 0..MaxAmount,
          item_name \in ItemNames, src \in TokenAccounts :
            CreateEscrow(p[1], p[2], amount, item_name, src)
    \/ \E key \in Keys, v \in Keys, signer \in Users, dest \in TokenAccounts :
            CancelEscrow(key, v, signer, dest)

SpecRefund == Init /\ [][NextRefund]_vars

(***************************************************************************)
(* The program and the token program side by side: besides calling the     *)
(* three instructions, the identities call the token program's transfer    *)
(* themselves, to move tokens of theirs into a vault or to try and move    *)
(* the tokens of a vault to an account of theirs.  A vault's authority is  *)
(* its escrow address (token::authority = escrow), for which only the      *)
(* program signs, with the escrow's seeds.  The instructions are called    *)
(* the way their signer gets furthest: create_escrow with a name that fits *)
(* and a token account of the buyer, the settlements with any escrow, any  *)
(* vault and a token account of the signer; a transfer out of a vault asks *)
(* for all it holds.                                                       *)
(***************************************************************************)
\* the token program's check of the authority of a transfer out of a user
\* token account
UserAuthorityResult(signer, src) ==
    IF Owner(src) # signer THEN "OwnerMismatch" ELSE "Ok"

\* the same check for a transfer out of the vault k: no identity signs for
\* the escrow address
VaultAuthorityResult(signer, k) == "OwnerMismatch"

\* signer transfers amount from the user token account src into the vault k
TransferToVault(signer, src, k, amount) ==
    LET r == IF UserAuthorityResult(signer, src) # "Ok"
                THEN UserAuthorityResult(signer, src)
                ELSE TransferResult(balance[src], amount, src \in frozen, FALSE)
    IN  /\ k \in DOMAIN vault
        /\ last' = [op |-> "transfer", signer |-> signer, account |-> src, result |-> r]
        /\ IF r = "Ok"
             THEN /\ balance' = [balance EXCEPT ![src] = @ - amount]
                  /\ vault' = [vault EXCEPT ![k] = @ + amount]
             ELSE UNCHANGED <<balance, vault>>
        /\ UNCHANGED <<escrow, frozen, pending, outcome>>

\* signer tries to transfer amount from the vault k to the user token account dest
TransferFromVault(signer, k, dest, amount) ==
    LET r == IF VaultAuthorityResult(signer, k) # "Ok"
                THEN VaultAuthorityResult(signer, k)
                ELSE TransferResult(vault[k], amount, FALSE, dest \in frozen)
    IN  /\ k \in DOMAIN vault
        /\ last' = [op |-> "withdraw", signer |-> signer, account |-> dest, result |-> r]
        /\ IF r = "Ok"
             THEN /\ vault' = [vault EXCEPT ![k] = @ - amount]
                  /\ balance' = [balance EXCEPT ![dest] = @ + amount]
             ELSE UNCHANGED <<balance, vault>>
        /\ UNCHANGED <<escrow, frozen, pending, outcome>>

NextDirect ==
    \/ \E p \in Pairs, amount \in 0..MaxAmount,
          item_name \in { n \in ItemNames : SerializedSize(n) <= SPACE } :
            \E src \in { a \in TokenAccounts : Owner(a) = p[1] } :
                CreateEscrow(p[1], p[2], amount, item_name, src)
    \/ \E key \in Keys, v \in Keys, dest \in TokenAccounts :
            CompleteEscrow(key, v, Owner(dest), dest)
    \/ \E key \in Keys, v \in Keys, dest \in TokenAccounts :
            CancelEscrow(key, v, Owner(dest), dest)
    \/ \E src \in TokenAccounts, k \in Keys, amount \in 1..MaxAmount :
            TransferToVault(Owner(src), src, k, amount)
    \/ \E k \in Keys, dest \in TokenAccounts :
            TransferFromVault(Owner(dest), k, dest, vault[k])

SpecDirect == Init /\ [][NextDirect]_vars

(***************************************************************************)
(* One escrow under the mint's freeze authority: the token program refuses *)
(* a transfer to a frozen account, which is how the release of a vault     *)
(* fails.  The freeze authority freezes and thaws user token accounts at   *)
(* will; the instructions are called for the pair (B, S).                  *)
(***************************************************************************)
FreezeAccount(a) ==
    /\ a \notin frozen
    /\ frozen' = frozen \cup {a}
    /\ UNCHANGED <<escrow, vault, balance, pending, outcome, last>>

ThawAccount(a) ==
    /\ a \in frozen
    /\ frozen' = frozen \ {a}
    /\ UNCHANGED <<escrow, vault, balance, pending, outcome, last>>

TheKey == EscrowPda("B", "S")

NextEnv ==
    \/ \E amount \in 0..MaxAmount, item_name \in ItemNames, src \in TokenAccounts :
            CreateEscrow("B", "S", amount, item_name, src)
    \/ \E signer \in Users, dest \in TokenAccounts :
            CompleteEscrow(TheKey, TheKey, signer, dest)
    \/ \E signer \in Users, dest \in TokenAccounts :
            CancelEscrow(TheKey, TheKey, signer, dest)
    \/ \E a \in TokenAccounts : FreezeAccount(a)
    \/ \E a \in TokenAccounts : ThawAccount(a)

SpecEnv == Init /\ [][NextEnv]_vars

(***************************************************************************)
(* Transactions in flight: signers submit settlement transactions on the   *)
(* Open record of the pair (B, S) at any time, each naming a token account *)
(* of its signer, and the ledger processes the submitted transactions one  *)
(* at a time, each as a whole, in any order.                               *)
(***************************************************************************)
Submitted == Cardinality(pending) + Len(outcome[TheKey])

SubmitTx(op, dest) ==
    /\ IsOpen(TheKey)
    /\ Submitted < MaxTx
    /\ pending' = pending \cup
            { [id |-> Submitted + 1, op |-> op, signer |-> Owner(dest), dest |-> dest] }
    /\ UNCHANGED <<escrow, vault, balance, frozen, outcome, last>>

TxResult(tx) ==
    IF tx.op = "complete"
        THEN CompleteResult(TheKey, TheKey, tx.signer, tx.dest)
        ELSE CancelResult(TheKey, TheKey, tx.signer, tx.dest)

ProcessTx(tx) ==
    /\ tx \in pending
    /\ IF tx.op = "complete"
         THEN ApplyComplete(TheKey, TheKey, tx.signer, tx.dest)
         ELSE ApplyCancel(TheKey, TheKey, tx.signer, tx.dest)
    /\ pending' = pending \ {tx}
    /\ outcome' = [outcome EXCEPT ![TheKey] =
            Append(@, [op |-> tx.op, signer |-> tx.signer, result |-> TxResult(tx)])]
    /\ UNCHANGED frozen

NextConc ==
    \/ \E amount \in 0..MaxAmount, item_name \in ItemNames, src \in TokenAccounts :
            CreateEscrow("B", "S", amount, item_name, src)
    \/ \E op \in {"complete", "cancel"}, dest \in TokenAccounts : SubmitTx(op, dest)
    \/ \E tx \in pending : ProcessTx(tx)

SpecConc == Init /\ [][NextConc]_vars

(***************************************************************************)
(* Helpers of the properties.                                              *)
(***************************************************************************)
RECURSIVE SumOver(_, _)
SumOver(f, S) ==
    IF S = {} THEN 0
    ELSE LET x == CHOOSE y \in S : TRUE IN f[x] + SumOver(f, S \ {x})

\* every token of the mint: the user accounts and the vaults
TotalTokens == SumOver(balance, TokenAccounts) + SumOver(vault, DOMAIN vault)

\* the step is the instruction `last` records afterwards, called on the escrow
\* address key (and, for a settlement, with the vault address v)
CreateCall(p, amount, item_name) ==
    /\ last'.op = "create"
    /\ last'.signer = p[1]
    /\ CreateEscrow(p[1], p[2], amount, item_name, last'.account)

CompleteCall(key, v) ==
    /\ last'.op = "complete"
    /\ CompleteEscrow(key, v, last'.signer, last'.account)

CancelCall(key, v) ==
    /\ last'.op = "cancel"
    /\ CancelEscrow(key, v, last'.signer, last'.account)

(***************************************************************************)
(* C1: complete_escrow succeeds only for the seller named in the record:   *)
(* on an Open record, a call signed by anyone else fails, moves no tokens  *)
(* out of the vault and leaves is_completed false.  Stated for the signers *)
(* who are not the record's buyer either, on a record whose vault holds    *)
(* tokens.                                                                 *)
(***************************************************************************)
C1_CompleteOnlyBySeller ==
    [][ \A key \in Keys, v \in Keys :
          ( /\ IsOpen(key)
            /\ vault[key] > 0
            /\ CompleteCall(key, v)
            /\ last'.signer # escrow[key].seller
            /\ last'.signer # escrow[key].buyer )
          => ( /\ last'.result # "Ok"
               /\ UNCHANGED <<escrow, vault, balance>> ) ]_vars

(***************************************************************************)
(* C2: no third party receives escrowed funds: whatever leaves a vault is  *)
(* credited to a token account owned by the record's seller or by the      *)
(* record's buyer (the buyer's only when cancel_escrow released it), never *)
(* to an account owned by another identity.                                *)
(***************************************************************************)
C2_NoThirdPartyPayout ==
    [][ \A k \in DOMAIN vault :
          vault'[k] < vault[k]
          => \E a \in TokenAccounts :
                /\ balance'[a] = balance[a] + (vault[k] - vault'[k])
                /\ Owner(a) \in {escrow[k].seller, escrow[k].buyer}
                /\ last'.op = "cancel" => Owner(a) = escrow[k].buyer ]_vars

(***************************************************************************)
(* C3: settlement is terminal: is_completed never goes back to false, and  *)
(* a complete_escrow or cancel_escrow on a Settled record, whoever signs   *)
(* it, fails and moves no tokens; when the instruction gets past the       *)
(* account constraints, the handler's error is AlreadyCompleted.           *)
(***************************************************************************)
C3_SettlementTerminal ==
    [][ /\ \A k \in Keys : IsSettled(k) => IsSettled(k)'
        /\ \A key \in Keys, v \in Keys :
              ( /\ IsSettled(key)
                /\ CompleteCall(key, v) \/ CancelCall(key, v) )
              => ( /\ last'.result # "Ok"
                   /\ UNCHANGED <<escrow, vault, balance>>
                   /\ (v = key /\ Owner(last'.account) = last'.signer)
                        => last'.result = "AlreadyCompleted" ) ]_vars

\* a settlement instruction has been refused on a Settled record
C3_Witness ==
    /\ last.op \in {"complete", "cancel"}
    /\ last.result = "AlreadyCompleted"
    /\ \E k \in Keys : IsSettled(k) /\ escrow[k].amount > 0

(***************************************************************************)
(* C4 as stated: on every existing record, Open or Settled, a cancel_escrow*)
(* signed by anyone but record.buyer fails with UnauthorizedCancel and     *)
(* changes neither the record nor a balance.  Stated for the records of a  *)
(* positive amount and the calls that name the record's vault and a token  *)
(* account of the signer.                                                  *)
(***************************************************************************)
C4_UnauthorizedCancelOnAnyRecord ==
    [][ \A key \in Keys :
          ( /\ key \in DOMAIN escrow
            /\ escrow[key].amount > 0
            /\ CancelCall(key, key)
            /\ last'.signer # escrow[key].buyer
            /\ Owner(last'.account) = last'.signer )
          => ( /\ last'.result = "UnauthorizedCancel"
               /\ UNCHANGED <<escrow, vault, balance>> ) ]_vars

(***************************************************************************)
(* C4 amended: on every existing record a cancel_escrow signed by anyone   *)
(* but record.buyer fails and changes neither the record nor a balance;    *)
(* the handler's error is UnauthorizedCancel when the record is Open and   *)
(* AlreadyCompleted when it is Settled.                                    *)
(***************************************************************************)
C4_UnauthorizedCancel ==
    [][ \A key \in Keys, v \in Keys :
          ( /\ key \in DOMAIN escrow
            /\ CancelCall(key, v)
            /\ last'.signer # escrow[key].buyer )
          => ( /\ last'.result # "Ok"
               /\ UNCHANGED <<escrow, vault, balance>>
               /\ (v = key /\ Owner(last'.account) = last'.signer)
                    => last'.result = IF IsOpen(key) THEN "UnauthorizedCancel"
                                                     ELSE "AlreadyCompleted" ) ]_vars

\* someone other than the buyer has tried to cancel an Open record
C4_Witness ==
    /\ last.op = "cancel"
    /\ last.result = "UnauthorizedCancel"
    /\ \E k \in Keys : IsOpen(k) /\ escrow[k].buyer # last.signer /\ vault[k] > 0

(***************************************************************************)
(* C5: at most one create_escrow succeeds per (buyer, seller) pair: a      *)
(* record, once created, stays, and a create_escrow for a pair that has a  *)
(* record, Open or Settled, fails with AlreadyExists and changes neither   *)
(* the record nor a balance.                                               *)
(***************************************************************************)
C5_OneCreatePerPair ==
    [][ /\ \A k \in Keys : k \in DOMAIN escrow => k \in DOMAIN escrow'
        /\ \A p \in Pairs, amount \in 0..MaxAmount, item_name \in ItemNames :
              ( /\ EscrowPda(p[1], p[2]) \in DOMAIN escrow
                /\ CreateCall(p, amount, item_name) )
              => ( /\ last'.result = "AlreadyExists"
                   /\ UNCHANGED <<escrow, vault, balance>> ) ]_vars

\* a create_escrow has been refused while every record there is was Settled
C5_Witness ==
    /\ last.op = "create"
    /\ last.result = "AlreadyExists"
    /\ DOMAIN escrow # {}
    /\ \A k \in DOMAIN escrow : IsSettled(k)

(***************************************************************************)
(* C6: every record has its vault, and the vault holds record.amount while *)
(* is_completed is false and 0 once it is true; there is no vault without  *)
(* a record.                                                               *)
(***************************************************************************)
C6_VaultMatchesRecord ==
    /\ DOMAIN vault = DOMAIN escrow
    /\ \A k \in DOMAIN escrow :
          vault[k] = IF escrow[k].is_completed THEN 0 ELSE escrow[k].amount

\* one record is Open with tokens locked while another has been paid out
C6_Witness ==
    \E k1 \in Keys, k2 \in Keys :
        /\ IsOpen(k1) /\ escrow[k1].amount > 0
        /\ IsSettled(k2) /\ escrow[k2].amount > 0

(***************************************************************************)
(* C7: tokens are conserved: no step changes the sum of all balances, user *)
(* accounts plus vaults; a successful create_escrow debits the funding     *)
(* account by the amount it stores in the record and puts in the vault,    *)
(* and a successful settlement credits its destination with exactly the    *)
(* stored amount, taken from the vault.                                    *)
(***************************************************************************)
C7_Conservation ==
    [][ /\ UNCHANGED <<balance, vault>> \/ TotalTokens' = TotalTokens
        /\ \A p \in Pairs, amount \in 0..MaxAmount, item_name \in ItemNames :
              ( CreateCall(p, amount, item_name) /\ last'.result = "Ok" )
              => ( /\ balance[last'.account] - balance'[last'.account] = amount
                   /\ escrow'[EscrowPda(p[1], p[2])].amount = amount
                   /\ vault'[EscrowPda(p[1], p[2])] = amount )
        /\ \A key \in Keys, v \in Keys :
              ( /\ CompleteCall(key, v) \/ CancelCall(key, v)
                /\ last'.result = "Ok" )
              => ( /\ balance'[last'.account] - balance[last'.account]
                        = escrow[key].amount
                   /\ vault[key] - vault'[key] = escrow[key].amount
                   /\ \A a \in TokenAccounts \ {last'.account} :
                         balance'[a] = balance[a] ) ]_vars

\* an escrow of more than nothing has been created and then cancelled
C7_Witness ==
    /\ last.op = "cancel"
    /\ last.result = "Ok"
    /\ \E k \in Keys : IsSettled(k) /\ escrow[k].amount > 0
                       /\ \A k2 \in Keys \ {k} : k2 \notin DOMAIN escrow

(***************************************************************************)
(* C9: create_escrow is all or nothing: when the funding account holds     *)
(* less than amount the call fails (with InsufficientFunds when the        *)
(* account is the buyer's), no record and no vault exist for the pair      *)
(* afterwards, no balance changes, and a create_escrow for the same pair   *)
(* with an amount the account holds then succeeds.                         *)
(***************************************************************************)
C9_CreateAllOrNothing ==
    [][ \A p \in Pairs, amount \in 0..MaxAmount, item_name \in ItemNames :
          ( /\ EscrowPda(p[1], p[2]) \notin DOMAIN escrow
            /\ CreateCall(p, amount, item_name)
            /\ balance[last'.account] < amount )
          => ( /\ last'.result # "Ok"
               /\ Owner(last'.account) = p[1] => last'.result = "InsufficientFunds"
               /\ UNCHANGED <<escrow, vault, balance>>
               /\ EscrowPda(p[1], p[2]) \notin DOMAIN escrow'
               /\ EscrowPda(p[1], p[2]) \notin DOMAIN vault'
               /\ \A src \in TokenAccounts, a2 \in 0..MaxAmount, n2 \in ItemNames :
                    ( /\ src = last'.account
                      /\ Owner(src) = p[1]
                      /\ a2 <= balance'[src]
                      /\ n2.bytes <= 50 )
                    => CreateResult(p[1], p[2], a2, n2, src)' = "Ok" ) ]_vars

\* a deposit has failed for lack of funds and left no record behind
C9_Witness ==
    /\ last.op = "create"
    /\ last.result = "InsufficientFunds"
    /\ balance[last.account] > 0
    /\ DOMAIN escrow = {}
    /\ DOMAIN vault = {}

(***************************************************************************)
(* C8: when the transfer out of the vault fails, the settlement is not     *)
(* committed: a complete_escrow, or a cancel_escrow by the buyer, that     *)
(* names a frozen destination on an Open record fails with the transfer's  *)
(* error, is_completed stays false, the vault and every balance are        *)
(* unchanged, and a settlement naming a destination that is not frozen     *)
(* then succeeds.                                                          *)
(***************************************************************************)
C8_FailedTransferNotCommitted ==
    [][ ( /\ IsOpen(TheKey)
          /\ \/ CompleteCall(TheKey, TheKey)
             \/ CancelCall(TheKey, TheKey) /\ last'.signer = escrow[TheKey].buyer
          /\ Owner(last'.account) = last'.signer
          /\ last'.account \in frozen )
        => ( /\ last'.result = "AccountFrozen"
             /\ UNCHANGED <<escrow, vault, balance>>
             /\ IsOpen(TheKey)'
             /\ \A dest \in TokenAccounts :
                   dest \notin frozen' =>
                     /\ CompleteResult(TheKey, TheKey, Owner(dest), dest)' = "Ok"
                     /\ Owner(dest) = escrow[TheKey].buyer =>
                          CancelResult(TheKey, TheKey, Owner(dest), dest)' = "Ok" ) ]_vars

\* a release has failed on a frozen destination, with tokens in the vault
C8_Witness ==
    /\ last.op \in {"complete", "cancel"}
    /\ last.result = "AccountFrozen"
    /\ IsOpen(TheKey)
    /\ vault[TheKey] > 0

(***************************************************************************)
(* C10: of the settlement transactions submitted on an Open record and     *)
(* processed in any order, the first one that passes the handler's signer  *)
(* check succeeds and pays the vault out, and every one processed after it *)
(* fails with AlreadyCompleted: the vault is paid out exactly once.        *)
(***************************************************************************)
PassesSignerCheck(e) == e.op = "complete" \/ e.signer = escrow[TheKey].buyer

OkCount(rs) == Cardinality({ i \in 1..Len(rs) : rs[i].result = "Ok" })

C10_ExactlyOneSettles ==
    LET rs == outcome[TheKey]
        firstOk == { i \in 1..Len(rs) :
                        PassesSignerCheck(rs[i])
                        /\ \A j \in 1..(i - 1) : ~PassesSignerCheck(rs[j]) }
    IN  /\ OkCount(rs) <= 1
        /\ \A i \in 1..Len(rs) :
              PassesSignerCheck(rs[i]) =>
                 rs[i].result = IF i \in firstOk THEN "Ok" ELSE "AlreadyCompleted"
        /\ IsSettled(TheKey) <=> OkCount(rs) = 1
        /\ IsSettled(TheKey) => vault[TheKey] = 0

\* a Complete and a Cancel were in flight together on the Open record; one was
\* processed and paid the vault out, the other was refused
C10_Witness ==
    LET rs == outcome[TheKey]
    IN  /\ Len(rs) = 2
        /\ escrow[TheKey].amount > 0
        /\ rs[1].op # rs[2].op
        /\ rs[1].result = "Ok"
        /\ rs[2].result = "AlreadyCompleted"
        /\ rs[2].op = "cancel" => rs[2].signer = "B"

(***************************************************************************)
(* C11: create_escrow requires amount > 0: a call with amount = 0 for a    *)
(* pair without a record, funded from an account of the buyer and with a   *)
(* name that fits, fails and creates no record and no vault, so that every *)
(* stored record has amount > 0.                                           *)
(***************************************************************************)
C11_CreateRequiresPositiveAmount ==
    [][ /\ \A p \in Pairs, item_name \in ItemNames :
              ( /\ EscrowPda(p[1], p[2]) \notin DOMAIN escrow
                /\ CreateCall(p, 0, item_name)
                /\ Owner(last'.account) = p[1]
                /\ item_name.bytes <= 50 )
              => ( /\ last'.result # "Ok"
                   /\ EscrowPda(p[1], p[2]) \notin DOMAIN escrow'
                   /\ EscrowPda(p[1], p[2]) \notin DOMAIN vault' )
        /\ \A k \in DOMAIN escrow' : escrow'[k].amount > 0 ]_vars

(***************************************************************************)
(* C12: funds cannot get stuck: while a record is Open, a cancel_escrow    *)
(* signed by record.buyer that names the record's vault and a token        *)
(* account of the buyer is enabled and succeeds; so, the buyer's cancel    *)
(* being weakly fair, every escrow created is eventually Settled with an   *)
(* empty vault.                                                            *)
(***************************************************************************)
C12_NoStuckFunds ==
    /\ [] \A key \in Keys :
            IsOpen(key) =>
               /\ ENABLED <<BuyerCancel(key)>>_vars
               /\ \A dest \in TokenAccounts :
                     Owner(dest) = escrow[key].buyer =>
                        CancelResult(key, key, escrow[key].buyer, dest) = "Ok"
    /\ \A key \in Keys :
          (key \in DOMAIN escrow) ~> (IsSettled(key) /\ vault[key] = 0)

\* the buyer has cancelled an escrow that held tokens, and has them back
C12_Witness ==
    /\ last.op = "cancel"
    /\ last.result = "Ok"
    /\ \E k \in Keys : /\ IsSettled(k)
                       /\ escrow[k].amount > 0
                       /\ vault[k] = 0
                       /\ last.signer = escrow[k].buyer
                       /\ balance[last.account] >= escrow[k].amount

(***************************************************************************)
(* C13: the trade terms are immutable: once a record exists, its buyer,    *)
(* seller, amount, item_name and bump keep their values in every later     *)
(* state; a complete_escrow or cancel_escrow that succeeds changes nothing *)
(* in the records but is_completed of the record it names, and one that    *)
(* fails changes no record, vault or balance.                              *)
(***************************************************************************)
C13_TermsImmutable ==
    [][ /\ \A k \in DOMAIN escrow :
              /\ k \in DOMAIN escrow'
              /\ escrow'[k].buyer = escrow[k].buyer
              /\ escrow'[k].seller = escrow[k].seller
              /\ escrow'[k].amount = escrow[k].amount
              /\ escrow'[k].item_name = escrow[k].item_name
              /\ escrow'[k].bump = escrow[k].bump
        /\ \A key \in Keys, v \in Keys :
              ( CompleteCall(key, v) \/ CancelCall(key, v) )
              => IF last'.result = "Ok"
                    THEN /\ IsOpen(key)
                         /\ escrow' = [escrow EXCEPT ![key].is_completed = TRUE]
                    ELSE UNCHANGED <<escrow, vault, balance>> ]_vars

\* an escrow with tokens in it has been completed, and still shows its terms
C13_Witness ==
    /\ last.op = "complete"
    /\ last.result = "Ok"
    /\ \E k \in Keys : /\ IsSettled(k)
                       /\ escrow[k] = [NewEscrow(k[1], k[2], escrow[k].amount,
                                                 escrow[k].item_name)
                                          EXCEPT !.is_completed = TRUE]
                       /\ escrow[k].amount > 0
                       /\ Owner(last.account) = escrow[k].seller

(***************************************************************************)
(* C14: a create_escrow that succeeds, signed by buyer B, naming seller S, *)
(* with amount a and item_name n, leaves a record with buyer = B,          *)
(* seller = S, amount = a, item_name = n and is_completed = false at an    *)
(* address that held none, a new vault holding a, and the funding account, *)
(* which is B's, debited by exactly a; B is the only signer, S signs       *)
(* nothing.                                                                *)
(***************************************************************************)
C14_CreatePostcondition ==
    [][ \A p \in Pairs, amount \in 0..MaxAmount, item_name \in ItemNames :
          ( CreateCall(p, amount, item_name) /\ last'.result = "Ok" )
          => LET key == EscrowPda(p[1], p[2])
             IN  /\ key \notin DOMAIN escrow
                 /\ key \notin DOMAIN vault
                 /\ escrow'[key].buyer = p[1]
                 /\ escrow'[key].seller = p[2]
                 /\ escrow'[key].amount = amount
                 /\ escrow'[key].item_name = item_name
                 /\ escrow'[key].is_completed = FALSE
                 /\ \A k \in DOMAIN escrow : escrow'[k] = escrow[k]
                 /\ vault'[key] = amount
                 /\ \A k \in DOMAIN vault : vault'[k] = vault[k]
                 /\ Owner(last'.account) = p[1]
                 /\ balance' = [balance EXCEPT ![last'.account] = @ - amount]
                 /\ last'.signer = p[1]
                 /\ last'.signer # p[2] ]_vars

\* the buyer alone has just created an escrow with tokens in it
C14_Witness ==
    /\ last.op = "create"
    /\ last.result = "Ok"
    /\ \E k \in Keys : /\ IsOpen(k)
                       /\ last.signer = escrow[k].buyer
                       /\ last.signer # escrow[k].seller
                       /\ Owner(last.account) = escrow[k].buyer
                       /\ escrow[k].amount > 0
                       /\ vault[k] = escrow[k].amount

(***************************************************************************)
(* C15: create_escrow followed by a cancel_escrow that succeeds is a       *)
(* refund round trip.  Where escrows are only created and cancelled, every *)
(* identity holds, over all its token accounts, what it held before the    *)
(* first create_escrow less the amounts of the escrows it has Open as      *)
(* buyer: an escrow created and then cancelled leaves its buyer's holdings *)
(* and everyone else's as they were, its vault at 0 and its record         *)
(* Settled.                                                                *)
(***************************************************************************)
Holdings(b, u) == SumOver(b, { a \in TokenAccounts : Owner(a) = u })

OpenDeposits(u) ==
    SumOver([k \in DOMAIN escrow |-> escrow[k].amount],
            { k \in DOMAIN escrow : IsOpen(k) /\ escrow[k].buyer = u })

C15_RefundRoundTrip ==
    /\ \A u \in Users :
          Holdings(balance, u) = Holdings(InitialBalance, u) - OpenDeposits(u)
    /\ \A k \in DOMAIN escrow :
          \/ IsOpen(k) /\ vault[k] = escrow[k].amount
          \/ IsSettled(k) /\ vault[k] = 0

\* the one escrow created has been cancelled, and the refund sits in the
\* buyer's second account: the buyer holds in total what they held before
C15_Witness ==
    /\ last.op = "cancel"
    /\ last.result = "Ok"
    /\ DOMAIN escrow = {TheKey}
    /\ IsSettled(TheKey)
    /\ escrow[TheKey].amount > 0
    /\ vault[TheKey] = 0
    /\ balance["b2"] = escrow[TheKey].amount
    /\ Holdings(balance, "B") = Holdings(InitialBalance, "B")

(***************************************************************************)
(* C16 as stated: a vault's balance and a record's is_completed flag       *)
(* change only in a step that is a successful create_escrow,               *)
(* complete_escrow or cancel_escrow of the escrow they belong to, whatever *)
(* else the identities do outside the three instructions.                  *)
(***************************************************************************)
\* the step is a successful instruction of the escrow at k, naming k's vault
OwnInstruction(k) ==
    /\ last'.result = "Ok"
    /\ \/ \E amount \in 0..MaxAmount, item_name \in ItemNames :
             CreateCall(k, amount, item_name)
       \/ CompleteCall(k, k)
       \/ CancelCall(k, k)

\* the record at k appears, or its is_completed changes
FlagChanges(k) ==
    \/ (k \in DOMAIN escrow) # (k \in DOMAIN escrow')
    \/ k \in DOMAIN escrow /\ escrow'[k].is_completed # escrow[k].is_completed

C17_NotFound ==
    [][ \A key \in Keys, v \in Keys :
          ( /\ key \notin DOMAIN escrow
            /\ CompleteCall(key, v) \/ CancelCall(key, v) )
          => ( /\ last'.result = "NotFound"
               /\ key \notin DOMAIN escrow'
               /\ UNCHANGED <<escrow, vault, balance>> ) ]_vars

\* a settlement has been refused for want of a record, while the vault of
\* the other pair held tokens
C17_Witness ==
    /\ last.op \in {"complete", "cancel"}
    /\ last.result = "NotFound"
    /\ \E k1 \in Keys, k2 \in Keys :
          /\ k1 \notin DOMAIN escrow
          /\ IsOpen(k2)
          /\ vault[k2] > 0

(***************************************************************************)
(* C18: every stored record has an item_name of at most 50 bytes: a        *)
(* create_escrow whose item_name is longer than 50 bytes fails, and leaves *)
(* no record, no vault and no change of a balance, also when everything    *)
(* else about the call is in order.                                        *)
(***************************************************************************)
C18_ItemNameBounded ==
    [][ /\ \A k \in DOMAIN escrow' : escrow'[k].item_name.bytes <= 50
        /\ \A p \in Pairs, amount \in 0..MaxAmount, item_name \in ItemNames :
              ( CreateCall(p, amount, item_name) /\ item_name.bytes > 50 )
              => ( /\ last'.result # "Ok"
                   /\ UNCHANGED <<escrow, vault, balance>>
                   /\ EscrowPda(p[1], p[2]) \notin DOMAIN escrow
                        => /\ EscrowPda(p[1], p[2]) \notin DOMAIN escrow'
                           /\ EscrowPda(p[1], p[2]) \notin DOMAIN vault'
                   /\ ( /\ EscrowPda(p[1], p[2]) \notin DOMAIN escrow
                        /\ Owner(last'.account) = p[1]
                        /\ balance[last'.account] >= amount )
                        => last'.result = "AccountDidNotSerialize" ) ]_vars

\* a create_escrow the buyer could pay for has failed on the length of its
\* item_name alone, and nothing is left of it
C18_Witness ==
    /\ last.op = "create"
    /\ last.result = "AccountDidNotSerialize"
    /\ DOMAIN escrow = {}
    /\ DOMAIN vault = {}
    /\ balance = InitialBalance

(***************************************************************************)
(* C19: in cancel_escrow the check of is_completed comes before the check  *)
(* of the signer: a cancel_escrow that reaches the handler on a Settled    *)
(* record returns AlreadyCompleted whoever signs it, the buyer or anyone   *)
(* else, and UnauthorizedCancel is returned only on an Open record, to a   *)
(* signer who is not its buyer.                                            *)
(***************************************************************************)
C19_SettledCheckFirst ==
    [][ \A key \in Keys, v \in Keys :
          CancelCall(key, v)
          => ( /\ ( /\ IsSettled(key)
                    /\ v = key
                    /\ Owner(last'.account) = last'.signer )
                  => last'.result = "AlreadyCompleted"
               /\ last'.result = "UnauthorizedCancel"
                  => ( /\ IsOpen(key)
                       /\ last'.signer # escrow[key].buyer )
               /\ last'.result = "AlreadyCompleted" => IsSettled(key) ) ]_vars

\* someone who is not the buyer has tried to cancel the one record there is,
\* which is Settled, and was told so
C19_Witness ==
    /\ last.op = "cancel"
    /\ last.result = "AlreadyCompleted"
    /\ \E k \in Keys : /\ DOMAIN escrow = {k}
                       /\ IsSettled(k)
                       /\ last.signer # escrow[k].buyer

=============================================================================
